---- MODULE Spec2Model ----
(***************************************************************************)
(* Model of src/server.ts (Izawa MCP Server): the two negotiated routes    *)
(*   GET  /.well-known/model-context-protocol.json                         *)
(*   POST /mcp                                                             *)
(* One request is handled at a time (handlers share no state); `prev`      *)
(* keeps the client's record of the previous exchange so that two runs of  *)
(* the same logical request can be compared.                               *)
(*                                                                         *)
(* The response object follows Node's http.ServerResponse as used by       *)
(* Express: once flushHeaders() has put the status line and headers on the *)
(* wire, res.status(n) only changes the local statusCode, and res.json()   *)
(* throws (ERR_HTTP_HEADERS_SENT, from the Content-Type setHeader in       *)
(* res.send) before it writes anything.                                    *)
(***************************************************************************)
EXTENDS Integers, Sequences, FiniteSets, TLC

VARIABLES req, pc, isSseRequest, headersSent, statusCode, wire,
          collab, content, format, prev

vars == <<req, pc, isSseRequest, headersSent, statusCode, wire,
          collab, content, format, prev>>

(***************************************************************************)
(* JavaScript values that can appear in a JSON-parsed request body.        *)
(***************************************************************************)
Undef == [t |-> "undefined", v |-> ""]

Null == [t |-> "null", v |-> ""]

Str(s) == [t |-> "string", v |-> s]

\* {} : stringifies to "[object Object]"
PlainObj == [t |-> "object", v |-> "plain"]

\* {"toString": 1} : its own toString is not callable and the inherited
\* valueOf returns the object, so ToString(x) throws a TypeError
BadObj == [t |-> "object", v |-> "toString:1"]

\* JavaScript truthiness (the `!x` tests of the handler)
Truthy(x) == ~(x.t = "undefined" \/ x.t = "null" \/ (x.t = "string" /\ x.v = ""))

\* does `${x}` throw
Throws(x) == x = BadObj

\* `${x}` for the values that do not throw
ToStr(x) == IF x.t = "string" THEN x.v
            ELSE IF x.t = "object" THEN "[object Object]"
            ELSE x.t

\* JSON.stringify: the JSON text of a value
Stringify(x) == [json |-> x]

\* `data: ${JSON.stringify(x)}\n\n`
SseFrame(x) == [prefix |-> "data: ", json |-> Stringify(x), suffix |-> "\n\n"]

(***************************************************************************)
(* Character sequences for the host arithmetic of getMcpMetadata.          *)
(***************************************************************************)
Localhost == <<"l","o","c","a","l","h","o","s","t">>

Http == <<"h","t","t","p">>

Https == <<"h","t","t","p","s">>

SchemeSep == <<":","/","/">>

IconPath == <<"/","i","c","o","n",".","p","n","g">>

\* const port = process.env.PORT || 3000, as it prints in `localhost:${port}`
port == <<"3","0","0","0">>

\* String.prototype.startsWith
StartsWith(s, p) == Len(s) >= Len(p) /\ SubSeq(s, 1, Len(p)) = p

\* the Host header values of the requests; <<>> is an absent header
Hosts == { <<>>,
           Localhost,
           Localhost \o <<":">> \o port,
           Localhost \o <<".","e","v","i","l",".","i","o">>,
           <<"m","y">> \o Localhost,
           <<"e","x","a","m","p","l","e",".","c","o","m">> }

Protocols == {Http, Https}

(***************************************************************************)
(* Requests.                                                               *)
(***************************************************************************)
\* the Accept header as the list of its media types; <<>> is an absent header
Accepts == { <<>>,
             <<"application/json">>,
             <<"text/event-stream">>,
             <<"application/json", "text/event-stream">> }

ContextIds == { Undef, Null, Str(""), Str("profile"), Str("blog_posts_list"),
                Str("blog_post_content"), Str("unknown_ctx"), PlainObj, BadObj }

PostIds == { Undef, Str(""), Str("post-1"), Str("missing-id"), BadObj }

\* req.body after express.json(): params absent, or params with a post_id
Bodies == { [context_id |-> c, hasParams |-> FALSE, post_id |-> Undef] : c \in ContextIds }
          \cup
          { [context_id |-> c, hasParams |-> TRUE, post_id |-> p] :
                c \in {Str("blog_post_content"), Str("profile")}, p \in PostIds }

EmptyBody == [context_id |-> Undef, hasParams |-> FALSE, post_id |-> Undef]

PostRequests == { [route |-> "POST /mcp", accept |-> a, body |-> b,
                   host |-> Localhost, protocol |-> Http] :
                      a \in Accepts, b \in Bodies }

GetRequests == { [route |-> "GET /.well-known", accept |-> a, body |-> EmptyBody,
                  host |-> h, protocol |-> p] :
                      a \in Accepts, h \in Hosts, p \in Protocols }

Requests == PostRequests \cup GetRequests

NoRequest == [route |-> "none", accept |-> <<>>, body |-> EmptyBody,
              host |-> <<>>, protocol |-> Http]

NoExchange == [req |-> NoRequest, collab |-> "none", wire |-> <<>>]

(***************************************************************************)
(* The response stream: what has been put on the wire.                     *)
(***************************************************************************)
HeadersEvt(status, ctype) == [k |-> "head", status |-> status, ctype |-> ctype]

Write(chunk) == [k |-> "write", chunk |-> chunk]

Send(chunk) == [k |-> "send", chunk |-> chunk]

End == [k |-> "end"]

\* res.write(`data: ...\n\n`); res.end()   on the flushed stream
SseReply(w, payload) == w \o << Write(SseFrame(payload)), End >>

\* res.status(s).json(payload) with no headers sent yet
JsonReply(w, s, payload) ==
    w \o << HeadersEvt(s, "application/json"), Send(Stringify(payload)), End >>

(***************************************************************************)
(* Payloads.                                                               *)
(***************************************************************************)
ErrMissingContextId == [error |-> <<"context_id is required">>]

ErrMissingPostId ==
    [error |-> <<"Missing required parameter 'post_id' for context 'blog_post_content'">>]

ErrPostNotFound(postId) ==
    [error |-> <<"Blog post with id '", ToStr(postId), "' not found">>]

ErrContextNotFound(contextId) ==
    [error |-> <<"Context with id '", ToStr(contextId), "' not found">>]

ErrInternal == [error |-> <<"Internal server error">>]

responseData(c, f) == [context |-> [content |-> c, format |-> f]]

CatalogIds == << "profile", "blog_posts_list", "blog_post_content" >>

\* getMcpMetadata with the scheme taken from the host alone
getMcpMetadata_HostOnly(r) ==
    LET host     == IF r.host # <<>> THEN r.host ELSE Localhost \o <<":">> \o port
        protocol == IF StartsWith(host, Localhost) THEN Http ELSE Https
        rootUrl  == protocol \o SchemeSep \o host
    IN  [ name     |-> "Izawa MCP Server",
          root_url |-> rootUrl,
          icon_url |-> rootUrl \o IconPath,
          contexts |-> CatalogIds ]

\* getMcpMetadata(req)
getMcpMetadata(r) ==
    LET host     == IF r.host # <<>> THEN r.host ELSE Localhost \o <<":">> \o port
        protocol == IF r.protocol = Http /\ StartsWith(host, Localhost)
                    THEN Http ELSE Https
        rootUrl  == protocol \o SchemeSep \o host
    IN  [ name     |-> "Izawa MCP Server",
          root_url |-> rootUrl,
          icon_url |-> rootUrl \o IconPath,
          contexts |-> CatalogIds ]

(***************************************************************************)
(* Collaborators.  `collab` is what the file system did for this request.  *)
(***************************************************************************)
\* getUserProfile(): the parsed file, or the built-in fallback on any error
getUserProfile(fs) == IF fs = "file" THEN [t |-> "json", v |-> "data/profile.json"]
                      ELSE [t |-> "json", v |-> "fallback profile"]

\* getBlogPosts(): the parsed index, or the built-in fallback on any error
getBlogPosts(fs) == IF fs = "file" THEN [t |-> "json", v |-> "data/posts/index.json"]
                    ELSE [t |-> "json", v |-> "fallback posts"]

\* getBlogPostContent(postId) for a postId that stringifies: the file's text
\* (possibly empty), or null on any error
getBlogPostContent(postId, fs) ==
    IF fs = "file" THEN Str("# " \o ToStr(postId))
    ELSE IF fs = "empty" THEN Str("")
    ELSE Null

\* setupSSE: acceptHeader.includes('text/event-stream')
AcceptsSse(r) == \E i \in 1..Len(r.accept) : r.accept[i] = "text/event-stream"

(***************************************************************************)
(* Initial state: the server is listening, nothing received yet.           *)
(***************************************************************************)
Init ==
    /\ req = NoRequest
    /\ pc = "idle"
    /\ isSseRequest = FALSE
    /\ headersSent = FALSE
    /\ statusCode = 200
    /\ wire = <<>>
    /\ collab = "none"
    /\ content = Null
    /\ format = "text/plain"
    /\ prev = NoExchange

\* A request arrives on one of the two routes, with a fresh response object.
Receive ==
    /\ pc \in {"idle", "done"}
    /\ \E r \in Requests :
          /\ req' = r
          /\ pc' = IF r.route = "POST /mcp" THEN "post_entry" ELSE "get_entry"
    /\ prev' = IF pc = "done" THEN [req |-> req, collab |-> collab, wire |-> wire]
               ELSE prev
    /\ isSseRequest' = FALSE
    /\ headersSent' = FALSE
    /\ statusCode' = 200
    /\ wire' = <<>>
    /\ collab' = "none"
    /\ content' = Null
    /\ format' = "text/plain"

\* setupSSE(req, res): the effect on the response of either handler
SetupSSE(next) ==
    /\ isSseRequest' = AcceptsSse(req)
    /\ headersSent' = AcceptsSse(req)
    /\ wire' = IF AcceptsSse(req)
               THEN << HeadersEvt(statusCode, "text/event-stream") >>
               ELSE wire
    /\ pc' = next

\* res.status(s).json(payload): sends when the headers are still unsent,
\* throws into the enclosing try otherwise
StatusJson(s, payload) ==
    /\ statusCode' = s
    /\ IF headersSent
       THEN /\ pc' = "catch"
            /\ UNCHANGED <<wire, headersSent>>
       ELSE /\ wire' = JsonReply(wire, s, payload)
            /\ headersSent' = TRUE
            /\ pc' = "done"

\* the isSseRequest ? write+end : status().json() pairs of the handlers
Reply(s, payload) ==
    IF isSseRequest
    THEN /\ wire' = SseReply(wire, payload)
         /\ pc' = "done"
         /\ UNCHANGED <<statusCode, headersSent>>
    ELSE StatusJson(s, payload)

(***************************************************************************)
(* GET /.well-known/model-context-protocol.json                            *)
(***************************************************************************)
GetEntry ==
    /\ pc = "get_entry"
    /\ SetupSSE("get_respond")
    /\ UNCHANGED <<req, statusCode, collab, content, format, prev>>

GetRespond ==
    /\ pc = "get_respond"
    /\ IF isSseRequest
       THEN /\ wire' = SseReply(wire, getMcpMetadata(req))
            /\ UNCHANGED <<statusCode, headersSent>>
       ELSE /\ wire' = JsonReply(wire, statusCode, getMcpMetadata(req))
            /\ headersSent' = TRUE
            /\ UNCHANGED statusCode
    /\ pc' = "done"
    /\ UNCHANGED <<req, isSseRequest, collab, content, format, prev>>

(***************************************************************************)
(* POST /mcp                                                               *)
(***************************************************************************)
\* const {context_id, params} = req.body; const isSseRequest = setupSSE(req, res)
PostEntry ==
    /\ pc = "post_entry"
    /\ SetupSSE("try")
    /\ UNCHANGED <<req, statusCode, collab, content, format, prev>>

\* CheckContextId replying like the later error branches, without the SSE case
CheckContextId_PlainOnly ==
    /\ pc = "try"
    /\ IF ~Truthy(req.body.context_id)
       THEN StatusJson(400, ErrMissingContextId)
       ELSE /\ pc' = "log"
            /\ UNCHANGED <<statusCode, headersSent, wire>>
    /\ UNCHANGED <<req, isSseRequest, collab, content, format, prev>>

\* if (!context_id) {...; return}
CheckContextId ==
    /\ pc = "try"
    /\ IF ~Truthy(req.body.context_id)
       THEN Reply(400, ErrMissingContextId)
       ELSE /\ pc' = "log"
            /\ UNCHANGED <<statusCode, headersSent, wire>>
    /\ UNCHANGED <<req, isSseRequest, collab, content, format, prev>>

\* console.log(`[MCP Request] context_id: ${context_id}, ...`)
LogRequest ==
    /\ pc = "log"
    /\ pc' = IF Throws(req.body.context_id) THEN "catch" ELSE "switch"
    /\ UNCHANGED <<req, isSseRequest, headersSent, statusCode, wire,
                   collab, content, format, prev>>

\* case 'profile'
CaseProfile ==
    /\ pc = "switch"
    /\ req.body.context_id = Str("profile")
    /\ \E fs \in {"file", "error"} :
          /\ collab' = fs
          /\ content' = Stringify(getUserProfile(fs))
    /\ format' = "application/json"
    /\ pc' = "respond"
    /\ UNCHANGED <<req, isSseRequest, headersSent, statusCode, wire, prev>>

\* case 'blog_posts_list'
CaseBlogPostsList ==
    /\ pc = "switch"
    /\ req.body.context_id = Str("blog_posts_list")
    /\ \E fs \in {"file", "error"} :
          /\ collab' = fs
          /\ content' = Stringify(getBlogPosts(fs))
    /\ format' = "application/json"
    /\ pc' = "respond"
    /\ UNCHANGED <<req, isSseRequest, headersSent, statusCode, wire, prev>>

\* case 'blog_post_content': if (!params || !params.post_id) {...; return}
CaseBlogPostContent ==
    /\ pc = "switch"
    /\ req.body.context_id = Str("blog_post_content")
    /\ IF ~req.body.hasParams \/ ~Truthy(req.body.post_id)
       THEN StatusJson(400, ErrMissingPostId)
       ELSE /\ pc' = "read_post"
            /\ UNCHANGED <<statusCode, headersSent, wire>>
    /\ UNCHANGED <<req, isSseRequest, collab, content, format, prev>>

\* content = await getBlogPostContent(postId): a postId that does not
\* stringify throws in the template literal of the try and again in the one of
\* the catch's console.error, so the await rejects.
ReadPost ==
    /\ pc = "read_post"
    /\ IF Throws(req.body.post_id)
       THEN /\ pc' = "catch"
            /\ collab' = "throw"
            /\ UNCHANGED content
       ELSE /\ \E fs \in {"file", "empty", "error"} :
                  /\ collab' = fs
                  /\ content' = getBlogPostContent(req.body.post_id, fs)
            /\ pc' = "check_post"
    /\ UNCHANGED <<req, isSseRequest, headersSent, statusCode, wire, format, prev>>

\* CheckPost with the assignment to format left out
CheckPost_NoFormat ==
    /\ pc = "check_post"
    /\ IF Truthy(content)
       THEN /\ pc' = "respond"
            /\ UNCHANGED <<statusCode, headersSent, wire>>
       ELSE StatusJson(404, ErrPostNotFound(req.body.post_id))
    /\ UNCHANGED <<req, isSseRequest, collab, content, format, prev>>

\* if (content) format = 'text/markdown' else {res.status(404).json(...); return}
CheckPost ==
    /\ pc = "check_post"
    /\ IF Truthy(content)
       THEN /\ format' = "text/markdown"
            /\ pc' = "respond"
            /\ UNCHANGED <<statusCode, headersSent, wire>>
       ELSE /\ StatusJson(404, ErrPostNotFound(req.body.post_id))
            /\ UNCHANGED format
    /\ UNCHANGED <<req, isSseRequest, collab, content, prev>>

\* default
CaseDefault ==
    /\ pc = "switch"
    /\ req.body.context_id \notin
          {Str("profile"), Str("blog_posts_list"), Str("blog_post_content")}
    /\ StatusJson(404, ErrContextNotFound(req.body.context_id))
    /\ UNCHANGED <<req, isSseRequest, collab, content, format, prev>>

\* const responseData = {context: {content, format}}; SSE frame or res.json
Respond ==
    /\ pc = "respond"
    /\ Reply(statusCode, responseData(content, format))
    /\ UNCHANGED <<req, isSseRequest, collab, content, format, prev>>

\* Catch with the SSE branch's res.end() left out
Catch_NoEnd ==
    /\ pc = "catch"
    /\ IF isSseRequest
       THEN /\ wire' = wire \o << Write(SseFrame(ErrInternal)) >>
            /\ pc' = "done"
            /\ UNCHANGED <<statusCode, headersSent>>
       ELSE /\ statusCode' = 500
            /\ wire' = JsonReply(wire, 500, ErrInternal)
            /\ headersSent' = TRUE
            /\ pc' = "done"
    /\ UNCHANGED <<req, isSseRequest, collab, content, format, prev>>

\* Catch with the plain branch's status(500) left out
Catch_NoStatus ==
    /\ pc = "catch"
    /\ IF isSseRequest
       THEN /\ wire' = SseReply(wire, ErrInternal)
            /\ pc' = "done"
            /\ UNCHANGED <<statusCode, headersSent>>
       ELSE /\ wire' = JsonReply(wire, statusCode, ErrInternal)
            /\ headersSent' = TRUE
            /\ pc' = "done"
            /\ UNCHANGED statusCode
    /\ UNCHANGED <<req, isSseRequest, collab, content, format, prev>>

\* catch (error) {...}; a throw from here leaves the handler
Catch ==
    /\ pc = "catch"
    /\ IF isSseRequest
       THEN /\ wire' = SseReply(wire, ErrInternal)
            /\ pc' = "done"
            /\ UNCHANGED <<statusCode, headersSent>>
       ELSE /\ statusCode' = 500
            /\ IF headersSent
               THEN /\ pc' = "unhandled"
                    /\ UNCHANGED <<wire, headersSent>>
               ELSE /\ wire' = JsonReply(wire, 500, ErrInternal)
                    /\ headersSent' = TRUE
                    /\ pc' = "done"
    /\ UNCHANGED <<req, isSseRequest, collab, content, format, prev>>

Next ==
    \/ Receive
    \/ GetEntry
    \/ GetRespond
    \/ PostEntry
    \/ CheckContextId
    \/ LogRequest
    \/ CaseProfile
    \/ CaseBlogPostsList
    \/ CaseBlogPostContent
    \/ ReadPost
    \/ CheckPost
    \/ CaseDefault
    \/ Respond
    \/ Catch

Spec == Init /\ [][Next]_vars

(***************************************************************************)
(* What the client observes of a finished exchange.                        *)
(***************************************************************************)
IsPost == req.route = "POST /mcp"

IsGet == req.route = "GET /.well-known"

Done == pc = "done"

\* the status line the client received
Status(w) == w[1].status

\* the JSON text carried by a body or by a data frame
JsonOf(e) == IF e.k = "send" THEN e.chunk ELSE e.chunk.json

\* the object that JSON text encodes
PayloadOf(e) == JsonOf(e).json

Carries(e) == e.k \in {"send", "write"}

Payload(w) == PayloadOf(w[2])

PlainEnvelope(w, s, p) ==
    w = << HeadersEvt(s, "application/json"), Send(Stringify(p)), End >>

SseEnvelope(w, p) ==
    w = << HeadersEvt(200, "text/event-stream"), Write(SseFrame(p)), End >>

MissingPostId == ~req.body.hasParams \/ ~Truthy(req.body.post_id)

KnownContext == req.body.context_id \in
                   {Str("profile"), Str("blog_posts_list"), Str("blog_post_content")}

(***************************************************************************)
(* C1 (as stated): a POST /mcp whose context_id is absent or falsy is      *)
(* answered with status 400 and {error: "context_id is required"}, under   *)
(* SSE negotiation as well as without it.                                  *)
(***************************************************************************)
C1_AsStated ==
    (Done /\ IsPost /\ ~Truthy(req.body.context_id))
        => (Status(wire) = 400 /\ Payload(wire) = ErrMissingContextId)

(***************************************************************************)
(* C1 (amended): a POST /mcp whose context_id is absent or falsy is        *)
(* answered with {error: "context_id is required"}: as a 400 JSON body     *)
(* when plain, as the single data frame of the stream whose status 200 was *)
(* already flushed when SSE-negotiated.                                    *)
(***************************************************************************)
C1_MissingContextId ==
    (Done /\ IsPost /\ ~Truthy(req.body.context_id))
        => IF AcceptsSse(req)
           THEN SseEnvelope(wire, ErrMissingContextId)
           ELSE PlainEnvelope(wire, 400, ErrMissingContextId)

C1_Witness ==
    /\ Done /\ IsPost /\ AcceptsSse(req)
    /\ req.body.context_id = Str("")
    /\ Status(wire) = 200
    /\ Payload(wire) = ErrMissingContextId

(***************************************************************************)
(* C2: a POST /mcp for blog_post_content without params or without a       *)
(* non-empty params.post_id is answered with status 400 and the            *)
(* missing-parameter payload, SSE-negotiated or not.                       *)
(***************************************************************************)
C2_MissingPostId ==
    (Done /\ IsPost /\ req.body.context_id = Str("blog_post_content") /\ MissingPostId)
        => (Status(wire) = 400 /\ Payload(wire) = ErrMissingPostId)

(***************************************************************************)
(* C3: a POST /mcp whose context_id is present and is none of profile,     *)
(* blog_posts_list, blog_post_content is answered with status 404 and      *)
(* {error: "Context with id '<context_id>' not found"}, SSE-negotiated or  *)
(* not.                                                                    *)
(***************************************************************************)
C3_UnknownContext ==
    (Done /\ IsPost /\ Truthy(req.body.context_id) /\ ~KnownContext
          /\ ~Throws(req.body.context_id))
        => (Status(wire) = 404
            /\ Payload(wire) = ErrContextNotFound(req.body.context_id))

(***************************************************************************)
(* C4: a POST /mcp for blog_post_content with a post_id whose read reports *)
(* absence (null) is answered with status 404 and                          *)
(* {error: "Blog post with id '<post_id>' not found"}, SSE-negotiated or   *)
(* not.                                                                    *)
(***************************************************************************)
C4_PostNotFound ==
    (Done /\ IsPost /\ req.body.context_id = Str("blog_post_content")
          /\ ~MissingPostId /\ collab = "error")
        => (Status(wire) = 404
            /\ Payload(wire) = ErrPostNotFound(req.body.post_id))

(***************************************************************************)
(* C5: two runs of the same logical request with the same collaborator     *)
(* results, one SSE-negotiated and one not, deliver the same JSON text:    *)
(* the plain body equals the JSON inside the single data frame.            *)
(***************************************************************************)
C5_SameLogicalRequest ==
    /\ prev.req.route = req.route
    /\ prev.req.body = req.body
    /\ prev.req.host = req.host
    /\ prev.req.protocol = req.protocol
    /\ prev.collab = collab
    /\ AcceptsSse(prev.req) # AcceptsSse(req)

C5_SamePayload ==
    (Done /\ C5_SameLogicalRequest) => JsonOf(wire[2]) = JsonOf(prev.wire[2])

(***************************************************************************)
(* C6: every payload of shape {context: {content, format}} put on the wire *)
(* has the format of its context_id: profile and blog_posts_list give      *)
(* application/json, blog_post_content gives text/markdown; text/plain is  *)
(* never sent and no other context_id gets such a payload.                 *)
(***************************************************************************)
C6_FormatTable ==
    \A i \in 1..Len(wire) :
        (Carries(wire[i]) /\ "context" \in DOMAIN PayloadOf(wire[i]))
            => LET f == PayloadOf(wire[i]).context.format
                   c == req.body.context_id
               IN  /\ IsPost
                   /\ \/ c = Str("profile") /\ f = "application/json"
                      \/ c = Str("blog_posts_list") /\ f = "application/json"
                      \/ c = Str("blog_post_content") /\ f = "text/markdown"

C6_Witness ==
    /\ Done /\ IsPost
    /\ req.body.context_id = Str("blog_post_content")
    /\ "context" \in DOMAIN Payload(wire)
    /\ Payload(wire).context.format = "text/markdown"
    /\ Payload(wire).context.content = Str("# post-1")

(***************************************************************************)
(* C7 (as stated): root_url is scheme://host with scheme http whenever the *)
(* host begins with "localhost" and https otherwise, whatever the inbound  *)
(* protocol.                                                               *)
(***************************************************************************)
C7_EffectiveHost == IF req.host = <<>> THEN Localhost \o <<":">> \o port ELSE req.host

C7_BeginsWithLocalhost ==
    /\ Len(C7_EffectiveHost) >= 9
    /\ \A i \in 1..9 : C7_EffectiveHost[i] = Localhost[i]

C7_AsStated ==
    (Done /\ IsGet /\ req.host # <<>>)
        => Payload(wire).root_url =
              (IF C7_BeginsWithLocalhost THEN Http ELSE Https)
                  \o SchemeSep \o C7_EffectiveHost

(***************************************************************************)
(* C7 (amended): root_url is scheme://host with scheme http exactly when   *)
(* the inbound protocol is http and the host begins with "localhost", and  *)
(* https in every other case (a localhost host reached over https          *)
(* included); host is the Host header, or localhost:3000 without one.      *)
(***************************************************************************)
C7_RootUrl ==
    (Done /\ IsGet)
        => Payload(wire).root_url =
              (IF req.protocol = Http /\ C7_BeginsWithLocalhost THEN Http ELSE Https)
                  \o SchemeSep \o C7_EffectiveHost

C7_Witness ==
    /\ Done /\ IsGet
    /\ req.host = Localhost \o <<":">> \o port
    /\ req.protocol = Https
    /\ Payload(wire).root_url = Https \o SchemeSep \o req.host

(***************************************************************************)
(* C8: every request to either route ends with exactly one logical         *)
(* response: one JSON body when plain, one data frame and then the end of  *)
(* the stream when SSE-negotiated; nothing is written twice or after the   *)
(* end, and no path leaves the handler without a terminated response.      *)
(***************************************************************************)
C8_OneResponse ==
    /\ Cardinality({i \in 1..Len(wire) : Carries(wire[i])}) <= 1
    /\ \A i \in 1..Len(wire) : wire[i].k = "end" => i = Len(wire)
    /\ \A i \in 1..Len(wire) : wire[i].k = "head" <=> i = 1
    /\ pc # "unhandled"
    /\ Done => /\ Len(wire) = 3
               /\ wire[3] = End
               /\ wire[2].k = IF AcceptsSse(req) THEN "write" ELSE "send"
               /\ wire[1].ctype = IF AcceptsSse(req) THEN "text/event-stream"
                                  ELSE "application/json"

C8_Witness ==
    /\ Done /\ IsPost /\ AcceptsSse(req)
    /\ req.body.context_id = Str("unknown_ctx")
    /\ statusCode = 404
    /\ wire = << HeadersEvt(200, "text/event-stream"), Write(SseFrame(ErrInternal)), End >>

C10_NegotiatedEnvelope ==
    [][(isSseRequest /\ headersSent /\ pc \notin {"idle", "done"})
          => statusCode' = statusCode]_vars

====
